---- MODULE Spec2Model ----
(***************************************************************************)
(* Room/session broker of stroke-of-deception-pass.                        *)
(*                                                                         *)
(* src/src/contexts/SocketContext.tsx holds the mock socket (the Event     *)
(* Channel: createMockSocket) and the Session Facade (SocketProvider).     *)
(* The Room Registry, '@/lib/socket-mock' (mockSocketServer), is imported  *)
(* but its file is not among the sources; the srv_* operators below are    *)
(* written from sections 3 and 4.2-4.4 of the specification.               *)
(*                                                                         *)
(* Time is not modelled as a number.  Timers are tasks of the event loop:  *)
(* a timer runs after every timer that was started before it with a delay  *)
(* less than or equal to its own (the ordering setTimeout guarantees);     *)
(* timers of different delays started in the other order are unordered.    *)
(* Room expiry (TTL) never elapses within a run.                           *)
(***************************************************************************)
EXTENDS Integers, Sequences, FiniteSets, TLC

\* ---------------------------------------------------------------- bounds
NumClients == 2
NumRooms == 2
MaxRequests == 2

\* ------------------------------------------------------------- constants
RoomCodeLength == 6
MaxPlayers == 2

Null == "null"
CodeTable == <<"AAAAAA", "BBBBBB", "CCCCCC", "DDDDDD">>
Clients == 1..NumClients
RoomCodes == {CodeTable[i] : i \in 1..NumRooms}
BadCodes == {"", "ABC"}
Kinds == {"create-room", "join-room"}

VARIABLES
  rooms,        \* mockSocketServer: room id -> set of member client ids
  clientRooms,  \* mockSocketServer: Membership Index, client id -> room id | Null
  stored,       \* Persistence Store: the persisted snapshot of rooms
  callbacks,    \* mockSocketServer: <<client, kind>> -> request whose callback is registered (0: none)
  timers,       \* the 300 ms setTimeout closures of emit, in the order they were started
  connectTimer, \* per socket: the 100 ms 'connect' timer has not fired yet
  requests,     \* the promises returned by createRoom()/joinRoom(), in call order
  roomId,       \* SocketProvider state, per client
  isConnecting, \* SocketProvider state, per client
  isConnected,  \* SocketProvider state, per client
  last          \* history of the last step: operation, inputs, state before, events

vars == <<rooms, clientRooms, stored, callbacks, timers, connectTimer,
          requests, roomId, isConnecting, isConnected, last>>

EmptyRooms == [r \in {} |-> {}]

\* ------------------------------------------------- Room Registry (reads)
getClientsInRoom(W, r) == IF r \in DOMAIN W.rooms THEN W.rooms[r] ELSE {}

getRoomForClient(W, c) == W.clientRooms[c]

\* the world a handler runs in: registry, store, callbacks, timers, the
\* events signalled (log) and emitted on the channel (emitted) so far, the
\* channels whose application handler of 'player-joined' emits (handlers),
\* the channels with a handler on the call stack (running) and the channels
\* on which a handler started while another had not returned (reentered)
World ==
  [rooms |-> rooms, clientRooms |-> clientRooms, stored |-> stored,
   callbacks |-> callbacks, timers |-> timers, log |-> <<>>, emitted |-> <<>>,
   handlers |-> {}, running |-> {}, reentered |-> {}]

\* ---------------------------------------- Event Channel: server listeners
\* mockSocket.receive on the channels in S: their handlers are called at
\* once, on the caller's stack
receive(W, S) == [W EXCEPT !.reentered = @ \cup (S \cap W.running)]

\* mockSocketServer.on('room:*:drawing-update') of every socket: the event is
\* received by the sockets whose room, by the Membership Index, is data.roomId
DrawingReceivers(W, r) ==
  {d \in Clients : getRoomForClient(W, d) # Null /\ getRoomForClient(W, d) = r}

\* mockSocketServer.broadcastToRoom: runs the listeners of every socket once
srv_broadcastToRoom(W, r, event, c) ==
  receive([W EXCEPT !.log = Append(@, [event |-> event, roomId |-> r, clientId |-> c,
                                       to |-> DrawingReceivers(W, r)])],
          DrawingReceivers(W, r))

\* emit('drawing-action', data) with data.roomId = r (Null: no room id)
emit_drawing_action(W, c, r) ==
  [(IF r # Null THEN srv_broadcastToRoom(W, r, "drawing-update", c) ELSE W)
     EXCEPT !.emitted = Append(@, "drawing-action")]

\* the 'player-joined' handlers of the channels in S that emit a
\* 'drawing-action' for the room joined before they return
RECURSIVE runHandlers(_, _, _)
runHandlers(W, S, r) ==
  IF S = {} THEN W
  ELSE LET d == CHOOSE x \in S : \A y \in S : x <= y
           W1 == emit_drawing_action([W EXCEPT !.running = @ \cup {d}], d, r)
       IN runHandlers([W1 EXCEPT !.running = W.running], S \ {d}, r)

\* listeners that pass every event on, whatever the room
Receivers_all(W, r) == Clients

\* mockSocketServer.on('player-joined' | 'player-left') of every socket: the
\* event is received by the sockets that are members of data.roomId now
Receivers(W, r) == {d \in Clients : d \in getClientsInRoom(W, r)}

signal(W, event, r, c) ==
  LET W1 == receive([W EXCEPT !.log = Append(@, [event |-> event, roomId |-> r,
                                                  clientId |-> c, to |-> Receivers(W, r)])],
                    Receivers(W, r))
  IN IF event = "player-joined"
       THEN runHandlers(W1, Receivers(W, r) \cap W.handlers, r)
       ELSE W1

\* ---------------------------------------------- Room Registry (mutations)
\* the Persisted Snapshot: room id -> member list (clients in ascending order)
RECURSIVE toList(_)
toList(S) ==
  IF S = {} THEN <<>>
  ELSE LET m == CHOOSE x \in S : \A y \in S : x <= y
       IN <<m>> \o toList(S \ {m})

serialize(rs) == [r \in DOMAIN rs |-> toList(rs[r])]

deserialize(snapshot) ==
  [r \in DOMAIN snapshot |-> {snapshot[r][i] : i \in 1..Len(snapshot[r])}]

\* a mutation that is not written to the Persistence Store
saveRooms_stale(W) == W

saveRooms(W) == [W EXCEPT !.stored = serialize(W.rooms)]

srv_leaveRoom(W, c) ==
  LET r == W.clientRooms[c] IN
  IF r = Null THEN W
  ELSE
    LET left == getClientsInRoom(W, r) \ {c}
        kept == IF left = {}
                  THEN [x \in DOMAIN W.rooms \ {r} |-> W.rooms[x]]
                  ELSE [x \in DOMAIN W.rooms \cup {r} |-> IF x = r THEN left ELSE W.rooms[x]]
        W1 == [W EXCEPT !.rooms = IF r \in DOMAIN W.rooms THEN kept ELSE W.rooms,
                        !.clientRooms = [@ EXCEPT ![c] = Null]]
    IN signal(saveRooms(W1), "player-left", r, c)

srv_createRoom(W, c, newId) ==
  saveRooms([W EXCEPT
    !.rooms = [x \in DOMAIN W.rooms \cup {newId} |-> IF x = newId THEN {c} ELSE W.rooms[x]],
    !.clientRooms = [@ EXCEPT ![c] = newId]])

canJoin(W, c, r) ==
  /\ r \in DOMAIN W.rooms
  /\ (c \in W.rooms[r] \/ Cardinality(W.rooms[r]) < MaxPlayers)

srv_joinRoom(W, c, r) ==
  IF ~canJoin(W, c, r) THEN W
  ELSE
    LET W1 == IF W.clientRooms[c] \notin {Null, r} THEN srv_leaveRoom(W, c) ELSE W
        W2 == [W1 EXCEPT !.rooms = [@ EXCEPT ![r] = @ \cup {c}],
                         !.clientRooms = [@ EXCEPT ![c] = r]]
    IN signal(saveRooms(W2), "player-joined", r, c)

\* the Membership Indexes that can be derived from a snapshot
DerivedIndexes(snapshot) ==
  LET rs == deserialize(snapshot) IN
  {idx \in [Clients -> DOMAIN rs \cup {Null}] :
     \A c \in Clients :
       IF \E r \in DOMAIN rs : c \in rs[r]
         THEN idx[c] # Null /\ c \in rs[idx[c]]
         ELSE idx[c] = Null}

srv_loadPersistentRooms(W, idx) ==
  [W EXCEPT !.rooms = deserialize(W.stored), !.clientRooms = idx]

srv_roomExists(W, r) == r \in DOMAIN W.stored

srv_clearAllRooms(W) ==
  [W EXCEPT !.rooms = EmptyRooms, !.stored = EmptyRooms,
            !.clientRooms = [c \in Clients |-> Null]]

srv_registerCallback(W, c, kind, q) ==
  [W EXCEPT !.callbacks = [@ EXCEPT ![<<c, kind>>] = q]]

\* mockSocketServer.executeCallback: the request whose callback is registered
\* for (c, kind), 0 when none; running it removes the registration
registered(W, c, kind) == W.callbacks[<<c, kind>>]

srv_executeCallback(W, c, kind) ==
  [W EXCEPT !.callbacks = [@ EXCEPT ![<<c, kind>>] = 0]]

\* ------------------------------------------------ Event Channel: emit
Timer(c, kind, result) == [client |-> c, kind |-> kind, result |-> result]

\* emit('create-room') that only schedules the acknowledgement
emit_create_room_noCreate(W, c, q, newId) ==
  LET W1 == srv_registerCallback(W, c, "create-room", q)
  IN [W1 EXCEPT !.timers = Append(@, Timer(c, "create-room", newId)),
                !.emitted = Append(@, "create-room")]

emit_create_room(W, c, q, newId) ==
  LET W1 == srv_registerCallback(W, c, "create-room", q)
      W2 == srv_createRoom(W1, c, newId)
  IN [W2 EXCEPT !.timers = Append(@, Timer(c, "create-room", newId)),
                !.emitted = Append(@, "create-room")]

\* 'join-room' up to the reload, with a leave that is not persisted
emit_join_room_leave_unsaved(W, c, q) ==
  [srv_leaveRoom(srv_registerCallback(W, c, "join-room", q), c)
     EXCEPT !.stored = W.stored]

\* 'join-room' up to the reload: register, leave the old room
emit_join_room_leave(W, c, q) ==
  srv_leaveRoom(srv_registerCallback(W, c, "join-room", q), c)

\* emit('join-room') that leaves the old room after joining the new one
emit_join_room_leaveLast(W, c, r, q, idx) ==
  LET W1 == srv_loadPersistentRooms(srv_registerCallback(W, c, "join-room", q), idx)
      success == canJoin(W1, c, r)
      W2 == srv_leaveRoom(srv_joinRoom(W1, c, r), c)
  IN [W2 EXCEPT !.timers = Append(@, Timer(c, "join-room", success)),
                !.emitted = Append(@, "join-room")]

\* 'join-room' from the reload on; idx is the index the reload derives
emit_join_room(W, c, r, q, idx) ==
  LET W1 == srv_loadPersistentRooms(emit_join_room_leave(W, c, q), idx)
      success == canJoin(W1, c, r)
      W2 == srv_joinRoom(W1, c, r)
  IN [W2 EXCEPT !.timers = Append(@, Timer(c, "join-room", success)),
                !.emitted = Append(@, "join-room")]

\* emit('leave-room') that does not reach the registry
emit_leave_room_noLeave(W, c) ==
  [W EXCEPT !.emitted = Append(@, "leave-room")]

emit_leave_room(W, c) ==
  [srv_leaveRoom(W, c) EXCEPT !.emitted = Append(@, "leave-room")]

\* ------------------------------------------------------ Session Facade
Request(c, kind, arg, state, value) ==
  [client |-> c, kind |-> kind, arg |-> arg, state |-> state, value |-> value]

Pre ==
  [rooms |-> rooms, clientRooms |-> clientRooms, stored |-> stored,
   roomId |-> roomId, isConnecting |-> isConnecting, requests |-> requests,
   callbacks |-> callbacks]

\* the history of a step: op on client c with argument arg, concerning
\* request q, running the acknowledgement callback of request invoked;
\* closed: the requests that were pending when their channel was disconnected
\* (no history is kept in the runs that start with last.op = "off")
\* the requests of client c whose promise is pending
awaiting(c) ==
  {q \in 1..Len(requests) : requests[q].client = c /\ requests[q].state = "pending"}

Last(op, c, arg, q, invoked, W) ==
  IF last.op = "off" THEN last
  ELSE [op |-> op, client |-> c, arg |-> arg, req |-> q, invoked |-> invoked,
        pre |-> Pre, log |-> W.log, emitted |-> W.emitted,
        reentered |-> W.reentered,
        closed |-> IF op = "disconnect" THEN last.closed \cup awaiting(c)
                   ELSE last.closed]

Commit(W) ==
  /\ rooms' = W.rooms
  /\ clientRooms' = W.clientRooms
  /\ stored' = W.stored
  /\ callbacks' = W.callbacks
  /\ timers' = W.timers

invalidCode(code) == code = "" \/ Len(code) # RoomCodeLength

\* the arg of a create-room request is the identifier its emit obtained
\* createRoom() over a generator that may return an identifier in use
createRoom_reuse(c) ==
  /\ Len(requests) < MaxRequests
  /\ \E newId \in RoomCodes :
       LET q == Len(requests) + 1
           W == emit_create_room(World, c, q, newId)
       IN /\ Commit(W)
          /\ requests' = Append(requests, Request(c, "create-room", newId, "pending", Null))
          /\ isConnecting' = [isConnecting EXCEPT ![c] = TRUE]
          /\ last' = Last("createRoom", c, newId, q, 0, W)
          /\ UNCHANGED <<roomId, isConnected, connectTimer>>

createRoom(c) ==
  /\ Len(requests) < MaxRequests
  /\ \E newId \in RoomCodes \ DOMAIN rooms :
       LET q == Len(requests) + 1
           W == emit_create_room(World, c, q, newId)
       IN /\ Commit(W)
          /\ requests' = Append(requests, Request(c, "create-room", newId, "pending", Null))
          /\ isConnecting' = [isConnecting EXCEPT ![c] = TRUE]
          /\ last' = Last("createRoom", c, newId, q, 0, W)
          /\ UNCHANGED <<roomId, isConnected, connectTimer>>

\* H: the channels whose 'player-joined' handler emits a 'drawing-action'
joinRoom(c, code) ==
  /\ Len(requests) < MaxRequests
  /\ LET q == Len(requests) + 1
         W0 == IF roomId[c] # Null THEN emit_leave_room(World, c) ELSE World
     IN /\ roomId' = [roomId EXCEPT ![c] = Null]
        /\ UNCHANGED <<isConnected, connectTimer>>
        /\ IF invalidCode(code)
             THEN /\ Commit(W0)
                  /\ requests' = Append(requests, Request(c, "join-room", code, "resolved", FALSE))
                  /\ isConnecting' = [isConnecting EXCEPT ![c] = FALSE]
                  /\ last' = Last("joinRoom", c, code, q, 0, W0)
             ELSE \E idx \in DerivedIndexes(W0.stored) :
               LET W1 == srv_loadPersistentRooms(W0, idx) IN
               IF ~srv_roomExists(W1, code)
                 THEN /\ Commit(W1)
                      /\ requests' = Append(requests, Request(c, "join-room", code, "resolved", FALSE))
                      /\ isConnecting' = [isConnecting EXCEPT ![c] = FALSE]
                      /\ last' = Last("joinRoom", c, code, q, 0, W1)
                 ELSE \E idx2 \in DerivedIndexes(emit_join_room_leave(W1, c, q).stored) :
                      \E H \in SUBSET Clients :
                   LET W2 == emit_join_room([W1 EXCEPT !.handlers = H], c, code, q, idx2) IN
                   /\ Commit(W2)
                   /\ requests' = Append(requests, Request(c, "join-room", code, "pending", FALSE))
                   /\ isConnecting' = [isConnecting EXCEPT ![c] = TRUE]
                   /\ last' = Last("joinRoom", c, code, q, 0, W2)

leaveRoom(c) ==
  /\ roomId[c] # Null
  /\ LET W == emit_leave_room(World, c)
     IN /\ Commit(W)
        /\ roomId' = [roomId EXCEPT ![c] = Null]
        /\ last' = Last("leaveRoom", c, roomId[c], 0, 0, W)
        /\ UNCHANGED <<requests, isConnecting, isConnected, connectTimer>>

debugResetRooms(c) ==
  LET W == srv_clearAllRooms(World)
  IN /\ Commit(W)
     /\ roomId' = [roomId EXCEPT ![c] = Null]
     /\ last' = Last("debugResetRooms", c, Null, 0, 0, W)
     /\ UNCHANGED <<requests, isConnecting, isConnected, connectTimer>>

\* mockSocket.disconnect(): runs the 'disconnect' listeners of the socket
disconnect(c) ==
  /\ isConnected' = [isConnected EXCEPT ![c] = FALSE]
  /\ roomId' = [roomId EXCEPT ![c] = Null]
  /\ last' = Last("disconnect", c, Null, 0, 0, World)
  /\ UNCHANGED <<rooms, clientRooms, stored, callbacks, timers, connectTimer,
                 requests, isConnecting>>

\* the 100 ms timer of createMockSocket: runs the 'connect' listeners
connect(c) ==
  /\ connectTimer[c]
  /\ connectTimer' = [connectTimer EXCEPT ![c] = FALSE]
  /\ isConnected' = [isConnected EXCEPT ![c] = TRUE]
  /\ isConnecting' = [isConnecting EXCEPT ![c] = FALSE]
  /\ last' = Last("connect", c, Null, 0, 0, World)
  /\ UNCHANGED <<rooms, clientRooms, stored, callbacks, timers, requests, roomId>>

\* the application emits a drawing event on the socket of client c
drawingAction(c, r) ==
  /\ last' = Last("drawingAction", c, r, 0, 0, emit_drawing_action(World, c, r))
  /\ UNCHANGED <<rooms, clientRooms, stored, callbacks, timers, connectTimer,
                 requests, roomId, isConnecting, isConnected>>

connected == \A c \in Clients : ~connectTimer[c]

\* resolve(v) of a promise: only a pending promise changes
resolve(reqs, q, v) ==
  IF reqs[q].state = "pending"
    THEN [reqs EXCEPT ![q].state = "resolved", ![q].value = v]
    ELSE reqs

reject(reqs, q) ==
  IF reqs[q].state = "pending" THEN [reqs EXCEPT ![q].state = "rejected"] ELSE reqs

\* the acknowledgement callbacks of createRoom() and joinRoom(): the room id
\* the facade records when request q is acknowledged with result
ackRoomId(q, result) ==
  IF requests[q].kind = "create-room" THEN result
  ELSE IF result THEN requests[q].arg
  ELSE roomId[requests[q].client]

\* the oldest 300 ms timer of emit fires: executeCallback(id, kind, result)
ackTimer ==
  /\ connected
  /\ timers # <<>>
  /\ LET t == Head(timers)
         q == registered(World, t.client, t.kind)
         W == [srv_executeCallback(World, t.client, t.kind) EXCEPT !.timers = Tail(timers)]
     IN /\ Commit(W)
        /\ last' = Last("ack", t.client,
                         IF t.kind = "create-room" THEN t.result ELSE Null, q, q, W)
        /\ IF q = 0
             THEN UNCHANGED <<requests, roomId, isConnecting>>
             ELSE /\ requests' = resolve(requests, q, t.result)
                  /\ roomId' = [roomId EXCEPT ![t.client] = ackRoomId(q, t.result)]
                  /\ isConnecting' = [isConnecting EXCEPT ![t.client] = FALSE]
        /\ UNCHANGED <<isConnected, connectTimer>>

\* the 5 s timer of request q has not been cleared and has not fired
armed(q) == q \in 1..Len(requests) /\ requests[q].state = "pending"

\* a timeout that reports the failure but never rejects the promise
timeout_noReject(q) ==
  /\ connected
  /\ armed(q)
  /\ \A p \in 1..(q - 1) : ~armed(p)
  /\ isConnecting' = [isConnecting EXCEPT ![requests[q].client] = FALSE]
  /\ last' = Last("timeout", requests[q].client, Null, q, 0, World)
  /\ UNCHANGED <<rooms, clientRooms, stored, callbacks, timers, connectTimer,
                 roomId, isConnected, requests>>

timeout(q) ==
  /\ connected
  /\ armed(q)
  /\ \A p \in 1..(q - 1) : ~armed(p)
  /\ requests' = reject(requests, q)
  /\ isConnecting' = [isConnecting EXCEPT ![requests[q].client] = FALSE]
  /\ last' = Last("timeout", requests[q].client, Null, q, 0, World)
  /\ UNCHANGED <<rooms, clientRooms, stored, callbacks, timers, connectTimer,
                 roomId, isConnected>>

NoHistory ==
  [op |-> "init", client |-> 0, arg |-> Null, req |-> 0, invoked |-> 0,
   pre |-> [rooms |-> EmptyRooms, clientRooms |-> [c \in Clients |-> Null],
            stored |-> EmptyRooms, roomId |-> [c \in Clients |-> Null],
            isConnecting |-> [c \in Clients |-> FALSE], requests |-> <<>>,
            callbacks |-> [k \in Clients \X Kinds |-> 0]],
   log |-> <<>>, emitted |-> <<>>, reentered |-> {}, closed |-> {}]

\* the state after every SocketProvider has mounted and created its socket
Constructed ==
  /\ rooms = EmptyRooms
  /\ clientRooms = [c \in Clients |-> Null]
  /\ stored = EmptyRooms
  /\ callbacks = [k \in Clients \X Kinds |-> 0]
  /\ timers = <<>>
  /\ connectTimer = [c \in Clients |-> TRUE]
  /\ requests = <<>>
  /\ roomId = [c \in Clients |-> Null]
  /\ isConnecting = [c \in Clients |-> FALSE]
  /\ isConnected = [c \in Clients |-> FALSE]

Init == Constructed /\ last = NoHistory

InitFair == Constructed /\ last = [NoHistory EXCEPT !.op = "off"]

Next ==
  \/ \E c \in Clients : createRoom(c)
  \/ \E c \in Clients : \E code \in RoomCodes \cup BadCodes : joinRoom(c, code)
  \/ \E c \in Clients : leaveRoom(c)
  \/ \E c \in Clients : debugResetRooms(c)
  \/ \E c \in Clients : disconnect(c)
  \/ \E c \in Clients : connect(c)
  \/ \E c \in Clients : \E r \in RoomCodes \cup {Null} : drawingAction(c, r)
  \/ ackTimer
  \/ \E q \in 1..Len(requests) : timeout(q)

Spec == Init /\ [][Next]_vars

roomOf(c) == CodeTable[((c - 1) % NumRooms) + 1]

\* the state after every client has created or joined a room and has been
\* acknowledged (client c holds roomOf(c); the settled promises of these
\* calls are no longer kept)
InitTwoRooms ==
  /\ rooms = [r \in {roomOf(c) : c \in Clients} |-> {c \in Clients : roomOf(c) = r}]
  /\ clientRooms = [c \in Clients |-> roomOf(c)]
  /\ stored = serialize(rooms)
  /\ callbacks = [k \in Clients \X Kinds |-> 0]
  /\ timers = <<>>
  /\ connectTimer = [c \in Clients |-> FALSE]
  /\ requests = <<>>
  /\ roomId = [c \in Clients |-> roomOf(c)]
  /\ isConnecting = [c \in Clients |-> FALSE]
  /\ isConnected = [c \in Clients |-> TRUE]
  /\ last = NoHistory

\* runs that start at construction or with the rooms already held
SpecTwoRooms == (Init \/ InitTwoRooms) /\ [][Next]_vars

TypeOK ==
  /\ DOMAIN rooms \subseteq RoomCodes
  /\ \A r \in DOMAIN rooms : rooms[r] \subseteq Clients
  /\ DOMAIN stored \subseteq RoomCodes
  /\ \A r \in DOMAIN stored : stored[r] \in Seq(Clients)
  /\ Len(requests) <= MaxRequests

\* the event loop runs every timer that is due
FairSpec ==
  /\ InitFair /\ [][Next]_vars
  /\ WF_vars(ackTimer)
  /\ \A c \in Clients : WF_vars(connect(c))
  /\ \A q \in 1..MaxRequests : WF_vars(timeout(q))

\* ------------------------------------------------------------ the claims
Now == World

memberRooms(c) == {r \in DOMAIN rooms : c \in rooms[r]}

registryUnchanged ==
  /\ rooms = last.pre.rooms
  /\ clientRooms = last.pre.clientRooms
  /\ stored = last.pre.stored

\* C1: the Membership Index and the member sets agree in both directions:
\* getRoomForClient(c) = r if and only if c is in getClientsInRoom(r)
C1_IndexAgreesWithRooms ==
  \A c \in Clients : \A r \in RoomCodes :
    (getRoomForClient(Now, c) = r) <=> (c \in getClientsInRoom(Now, r))

\* C2: in every reachable state a client is a member of at most one room
C2_AtMostOneRoom ==
  \A c \in Clients : Cardinality(memberRooms(c)) <= 1

\* C3: a join request for a well-formed room id that does not exist is
\* answered with false and leaves rooms, member sets and index as they were
C3_JoinMissingRoomNoMutation ==
  (last.op = "joinRoom" /\ last.arg \in RoomCodes /\ last.arg \notin DOMAIN last.pre.rooms)
    => /\ requests[last.req].state = "resolved"
       /\ requests[last.req].value = FALSE
       /\ registryUnchanged

\* the result the acknowledgement of the request just emitted will carry
emittedResult == timers[Len(timers)].result

\* C4: a join request by a member of the room reports success, the room
\* still exists and its member set is the same as before
C4_RejoinIdempotent ==
  (/\ last.op = "joinRoom"
   /\ last.arg \in DOMAIN last.pre.rooms
   /\ last.client \in last.pre.rooms[last.arg]
   /\ last.pre.clientRooms[last.client] = last.arg)
    => /\ requests[last.req].state = "pending"
       /\ emittedResult = TRUE
       /\ last.arg \in DOMAIN rooms
       /\ rooms[last.arg] = last.pre.rooms[last.arg]

playerLeft(c) ==
  {i \in 1..Len(last.log) : last.log[i].event = "player-left" /\ last.log[i].clientId = c}

\* C5: after disconnect() of a room member the client is in no member set,
\* has no index entry, and 'player-left' was signalled for it exactly once
C5_DisconnectLeaves ==
  (last.op = "disconnect" /\ last.pre.clientRooms[last.client] # Null)
    => /\ memberRooms(last.client) = {}
       /\ getRoomForClient(Now, last.client) = Null
       /\ Cardinality(playerLeft(last.client)) = 1

\* C6: every createRoom()/joinRoom() promise is eventually resolved or rejected
C6_EveryRequestSettles ==
  \A q \in 1..MaxRequests :
    (Len(requests) >= q /\ requests[q].state = "pending")
      ~> (Len(requests) >= q /\ requests[q].state # "pending")

\* a request whose acknowledgement can no longer come was settled by its timeout
C6_Witness ==
  \E q \in 1..Len(requests) :
    /\ requests[q].state = "rejected"
    /\ registered(Now, requests[q].client, requests[q].kind) # q
    /\ timers = <<>>

lateAck ==
  /\ last.op = "ack"
  /\ last.invoked # 0
  /\ last.pre.requests[last.invoked].state = "rejected"

\* C7: an acknowledgement that runs after the timeout rejected its request
\* leaves the outcome rejected and roomId and isConnecting unchanged
C7_LateAckIgnored ==
  lateAck => /\ requests[last.invoked].state = "rejected"
             /\ roomId = last.pre.roomId
             /\ isConnecting = last.pre.isConnecting

emittedRequest ==
  /\ last.op \in {"createRoom", "joinRoom"}
  /\ last.emitted # <<>>
  /\ last.emitted[Len(last.emitted)] \in Kinds

\* C8: when emit('create-room' | 'join-room', ack) returns, the room is
\* created / the client has joined as the registry reads show, and the
\* acknowledgement has not run: it is registered, its timer is queued, the
\* promise is pending and roomId does not yet hold the result
C8_MutationBeforeAck ==
  emittedRequest =>
    LET c == last.client
        kind == last.emitted[Len(last.emitted)]
    IN /\ timers # <<>>
       /\ timers[Len(timers)].client = c
       /\ timers[Len(timers)].kind = kind
       /\ registered(Now, c, kind) = last.req
       /\ requests[last.req].state = "pending"
       /\ last.invoked = 0
       /\ kind = "create-room" =>
            /\ getClientsInRoom(Now, last.arg) = {c}
            /\ getRoomForClient(Now, c) = last.arg
            /\ emittedResult = last.arg
            /\ roomId[c] = last.pre.roomId[c]
       /\ (kind = "join-room" /\ emittedResult = TRUE) =>
            /\ c \in getClientsInRoom(Now, last.arg)
            /\ getRoomForClient(Now, c) = last.arg
            /\ roomId[c] = Null

C8_Witness ==
  /\ emittedRequest
  /\ last.op = "joinRoom"
  /\ emittedResult = TRUE
  /\ last.client \in getClientsInRoom(Now, last.arg)
  /\ last.client \notin getClientsInRoom([rooms |-> last.pre.rooms], last.arg)
  /\ requests[last.req].state = "pending"

\* C9: joinRoom(code) with a code that is empty or not 6 long returns false
\* without emitting an event and without changing the registry
C9_BadCodeRejectedBeforeRequest ==
  (last.op = "joinRoom" /\ invalidCode(last.arg))
    => /\ requests[last.req].state = "resolved"
       /\ requests[last.req].value = FALSE
       /\ last.emitted = <<>>
       /\ registryUnchanged

soleMemberLeft ==
  /\ last.op = "leaveRoom"
  /\ last.pre.clientRooms[last.client] # Null
  /\ getClientsInRoom([rooms |-> last.pre.rooms], last.pre.clientRooms[last.client])
       = {last.client}

\* C10: after the only member of r leaves, r is removed: roomExists(r) is
\* false, also after a reload from the store, and a join request for r fails;
\* a join request for a room that does not exist is answered with false
C10_EmptyRoomRemoved ==
  /\ soleMemberLeft =>
       LET r == last.pre.clientRooms[last.client] IN
       /\ r \notin DOMAIN rooms
       /\ ~srv_roomExists(Now, r)
       /\ \A idx \in DerivedIndexes(stored) :
            /\ ~srv_roomExists(srv_loadPersistentRooms(Now, idx), r)
            /\ \A d \in Clients : ~canJoin(srv_loadPersistentRooms(Now, idx), d, r)
  /\ (last.op = "joinRoom" /\ last.arg \notin DOMAIN last.pre.stored) =>
       /\ requests[last.req].state = "resolved"
       /\ requests[last.req].value = FALSE

C10_Witness ==
  /\ soleMemberLeft
  /\ last.pre.clientRooms[last.client] \notin DOMAIN rooms
  /\ last.pre.clientRooms[last.client] \notin DOMAIN stored

drawingUpdates ==
  {i \in 1..Len(last.log) : last.log[i].event = "drawing-update"}

\* C11: a drawing event with data.roomId = r is received as 'drawing-update'
\* exactly once by every member of r and by no client that is not a member
C11_DrawingReachesMembers ==
  (last.op = "drawingAction" /\ last.arg # Null)
    => /\ Cardinality(drawingUpdates) = 1
       /\ \A i \in drawingUpdates :
            /\ last.log[i].roomId = last.arg
            /\ last.log[i].to = getClientsInRoom(Now, last.arg)

memberLeft ==
  /\ last.op = "leaveRoom"
  /\ last.pre.clientRooms[last.client] \in DOMAIN last.pre.rooms
  /\ last.client \in last.pre.rooms[last.pre.clientRooms[last.client]]
  /\ last.pre.rooms[last.pre.clientRooms[last.client]] # {last.client}

\* C12: when b leaves a room r that keeps other members, b is removed from
\* r, the others stay, and exactly one 'player-left' naming b and r is
\* signalled, received by each remaining member and by no one else
C12_LeaveNotifiesRemaining ==
  memberLeft =>
    LET b == last.client
        r == last.pre.clientRooms[b]
    IN /\ getClientsInRoom(Now, r) = last.pre.rooms[r] \ {b}
       /\ Len(last.log) = 1
       /\ last.log[1].event = "player-left"
       /\ last.log[1].roomId = r
       /\ last.log[1].clientId = b
       /\ last.log[1].to = last.pre.rooms[r] \ {b}
       /\ \A d \in Clients \ getClientsInRoom(Now, r) : d \notin last.log[1].to

C12_Witness ==
  /\ memberLeft
  /\ Len(last.log) = 1
  /\ last.log[1].to # {}
  /\ last.client \notin last.log[1].to
  /\ last.client \notin getClientsInRoom(Now, last.log[1].roomId)

succeeded(q) ==
  /\ requests[q].state = "resolved"
  /\ (requests[q].kind = "join-room" => requests[q].value = TRUE)

\* an acknowledgement callback runs for a request whose channel was
\* disconnected while the request was pending
ackAfterClose == last.op = "ack" /\ last.invoked \in last.closed

\* C14: a request that was awaiting its acknowledgement when its channel was
\* disconnected is never acknowledged as a success afterwards, and its
\* acknowledgement records no room id for the disconnected client
C14_ClosedRequestFails ==
  ackAfterClose =>
    /\ ~succeeded(last.invoked)
    /\ roomId[last.client] = last.pre.roomId[last.client]

\* C15: the registry holds one pending acknowledgement per (client, kind) at
\* most, and the pair of a request whose acknowledgement was delivered or
\* whose timeout fired no longer holds that request's registration
C15_SettledRequestUnregistered ==
  \A q \in 1..Len(requests) :
    requests[q].state # "pending"
      => registered(Now, requests[q].client, requests[q].kind) # q

\* C16: handlers of one channel run one at a time: no handler of a channel
\* starts while another handler of that channel has not returned, also when
\* the running handler emits an event that is broadcast back to its channel
C16_HandlersSerialized == last.reentered = {}

\* C17: no operation of the facade lets a client empty the rooms of other
\* clients: whatever client last.client did, every other client is still a
\* member of each room it was a member of
C17_OthersKeepTheirRooms ==
  \A d \in Clients \ {last.client} :
    \A r \in DOMAIN last.pre.rooms :
      d \in last.pre.rooms[r] => d \in getClientsInRoom(Now, r)

\* a registry that starts empty and loads the persisted snapshot
freshRegistry(idx) ==
  srv_loadPersistentRooms([World EXCEPT !.rooms = EmptyRooms,
                                        !.clientRooms = [c \in Clients |-> Null]], idx)

C19_CallbackGetsOwnResult ==
  (last.op = "ack" /\ last.arg # Null)
    => /\ last.invoked # 0
       /\ requests[last.invoked].arg = last.arg

\* the positions of the log where event names client c and room r
signals(event, r, c) ==
  {i \in 1..Len(last.log) :
     /\ last.log[i].event = event
     /\ last.log[i].roomId = r
     /\ last.log[i].clientId = c}

\* joinRoom(r2) by a client that was in room r1 and not in r2 was emitted
\* and will be acknowledged as a success
movedRoom(r1, r2) ==
  /\ last.op = "joinRoom"
  /\ last.arg = r2
  /\ r1 # r2
  /\ r1 \in DOMAIN last.pre.rooms
  /\ last.client \in last.pre.rooms[r1]
  /\ last.client \notin getClientsInRoom([rooms |-> last.pre.rooms], r2)
  /\ last.emitted # <<>>
  /\ last.emitted[Len(last.emitted)] = "join-room"
  /\ emittedResult = TRUE

\* C20: a successful join of r2 by a client in another room r1 removes the
\* client from r1 and signals 'player-left' for r1 exactly once, and only
\* then adds the client to r2 and signals 'player-joined' to the members of
\* r2; afterwards the client is in r2 and not in r1
C20_JoinFromOtherRoom ==
  \A r1, r2 \in RoomCodes :
    movedRoom(r1, r2) =>
      LET c == last.client IN
      /\ Cardinality(signals("player-left", r1, c)) = 1
      /\ Cardinality(signals("player-joined", r2, c)) = 1
      /\ \A i \in signals("player-left", r1, c) :
           \A j \in signals("player-joined", r2, c) :
             /\ i < j
             /\ last.log[j].to = getClientsInRoom(Now, r2)
      /\ c \in getClientsInRoom(Now, r2)
      /\ c \notin getClientsInRoom(Now, r1)

C20_Witness ==
  \E r1, r2 \in RoomCodes :
    /\ movedRoom(r1, r2)
    /\ last.pre.roomId[last.client] = r1
    /\ signals("player-left", r1, last.client) # {}
    /\ last.client \in getClientsInRoom(Now, r2)
    /\ Cardinality(getClientsInRoom(Now, r2)) = 2

\* the registry as it was before the last step
PreWorld ==
  [World EXCEPT !.rooms = last.pre.rooms, !.clientRooms = last.pre.clientRooms,
                !.stored = last.pre.stored, !.callbacks = last.pre.callbacks]

\* a reload of W that derives index idx leaves the Room Registry as it was
reloadKeeps(W, idx) ==
  /\ DOMAIN srv_loadPersistentRooms(W, idx).rooms = DOMAIN W.rooms
  /\ \A r \in DOMAIN W.rooms : srv_loadPersistentRooms(W, idx).rooms[r] = W.rooms[r]

\* the registry when joinRoom() reloads before its roomExists pre-check
atPreCheck ==
  IF last.pre.roomId[last.client] # Null
    THEN emit_leave_room(PreWorld, last.client)
    ELSE PreWorld

\* the last step was a joinRoom() that reached its reload
reloaded == last.op = "joinRoom" /\ ~invalidCode(last.arg)

C22_RoomIdMatchesRegistry ==
  \A c \in Clients :
    awaiting(c) = {} =>
      /\ roomId[c] # Null => c \in getClientsInRoom(Now, roomId[c])
      /\ roomId[c] = Null => memberRooms(c) = {}

\* the last step made client last.client emit a room request
emittedRoomEvent ==
  /\ last.op \in {"createRoom", "joinRoom", "leaveRoom"}
  /\ last.emitted # <<>>

====
